---- MODULE Spec2Model ----
(***************************************************************************)
(* Attachment lifecycle and message creation of the edge-chatbot backend.  *)
(*                                                                         *)
(* The database tables (attachments, messages) and the blob container are  *)
(* the shared state.  Every request handler is a coroutine: each database  *)
(* round trip (SELECT, commit) and each storage call is one atomic step,   *)
(* and steps of different requests interleave.  A request keeps the        *)
(* session-local copy of what it loaded in req[p].                         *)
(***************************************************************************)
EXTENDS Integers, Sequences, FiniteSets, TLC

\* ------------------------------------------------------------------ bounds
MaxRows == 2      \* attachment rows ever inserted (ids are never reused)
MaxLen == 1       \* longest uploaded content, in bytes
MaxMsgs == 2      \* committed messages
MaxPrefMsgs == 4  \* committed messages where activity preferences are studied
MaxAttachmentsPerConversation == 2   \* settings.max_attachments_per_conversation
MaxName == 4      \* characters of a short filename under study
MaxStored == 21   \* messages of a conversation before an AI call
MaxActive == 2    \* attachment contexts handed to an AI call

\* ------------------------------------------------------------ input domains
Procs == {1, 2}                 \* request slots: requests served at the same time
Users == {"u1", "u2"}           \* authenticated users
Convs == {1, 2}                 \* existing (non-deleted) conversations
Bytes == {0, 1}
MsgTexts == {"hello"}           \* message bodies

\* Conversation.owner_id
owner_id(c) == IF c = 1 THEN "u1" ELSE "u2"

Contents == UNION {[1..n -> Bytes] : n \in 1..MaxLen}

\* settings.max_file_size, scaled: one more than any content that is uploaded
max_file_size == MaxLen + 1

PENDING == "pending"
UPLOADED == "uploaded"
FAILED == "failed"
DELETED == "deleted"
ACTIVE == "active"
INACTIVE == "inactive"
TYPE_IMAGE == "image"
TYPE_DOCUMENT == "document"
TYPE_OTHER == "other"

\* content types a client may declare (settings.allowed_content_types)
allowed_content_types == {"text/plain"}

\* ------------------------------------------------------------ FileService
\* hashlib.sha256: update() absorbs one chunk, byte by byte
RECURSIVE sha256_update(_, _)
sha256_update(h, chunk) ==
    IF chunk = <<>> THEN h
    ELSE sha256_update((h * 31 + Head(chunk) + 1) % 65521, Tail(chunk))

HexDigit(d) == <<"0","1","2","3","4","5","6","7","8","9","a","b","c","d","e","f">>[d + 1]

hexdigest(h) ==
    HexDigit((h \div 4096) % 16) \o HexDigit((h \div 256) % 16)
      \o HexDigit((h \div 16) % 16) \o HexDigit(h % 16)

\* bytes read per file.read() in calculate_file_hash (8192 in the source)
ChunkSize == 1

RECURSIVE hash_chunks(_, _)
hash_chunks(h, rest) ==
    IF rest = <<>> THEN h
    ELSE LET n == IF Len(rest) < ChunkSize THEN Len(rest) ELSE ChunkSize
         IN  hash_chunks(sha256_update(h, SubSeq(rest, 1, n)),
                         SubSeq(rest, n + 1, Len(rest)))

calculate_file_hash(content) == hexdigest(hash_chunks(0, content))

\* libmagic on the first bytes: the leading byte decides
detect_content_type(content) ==
    IF content = <<>> THEN "application/octet-stream"
    ELSE IF content[1] = 0 THEN "text/plain" ELSE "image/png"

\* str.lower() of a content type (the mixed-case spellings that are modelled)
lower(s) ==
    CASE s = "IMAGE/PNG" -> "image/png"
      [] s = "Text/HTML" -> "text/html"
      [] s = "VIDEO/MP4" -> "video/mp4"
      [] OTHER -> s

\* str.lower() of a name, one character at a time
lower_char(c) ==
    CASE c = "P" -> "p"
      [] c = "Y" -> "y"
      [] c = "D" -> "d"
      [] c = "F" -> "f"
      [] OTHER -> c

lower_name(name) == [i \in DOMAIN name |-> lower_char(name[i])]

\* str.startswith(prefix) on a lower-cased content type: the modelled types
\* that begin with each prefix
startswith(s, prefix) ==
    s \in (CASE prefix = "image/" -> {"image/png", "image/svg+xml"}
            [] prefix = "text/" -> {"text/plain", "text/csv", "text/markdown",
                                    "text/rtf", "text/html", "text/x-python"}
            [] prefix = "audio/" -> {"audio/mpeg"}
            [] prefix = "video/" -> {"video/mp4"}
            [] OTHER -> {})

\* Path(filename).suffix of a name without directory part, as characters: from
\* the last dot on, unless that dot is the first or the last character
suffix(name) ==
    LET dots == {i \in DOMAIN name : name[i] = "."}
        last == IF dots = {} THEN 0
                ELSE CHOOSE i \in dots : \A j \in dots : j <= i
    IN  IF last > 1 /\ last < Len(name)
        THEN SubSeq(name, last, Len(name))
        ELSE <<>>

document_types ==
    {"application/pdf",
     "application/msword",
     "application/vnd.openxmlformats-officedocument.wordprocessingml.document",
     "application/vnd.ms-excel",
     "application/vnd.openxmlformats-officedocument.spreadsheetml.sheet",
     "application/vnd.ms-powerpoint",
     "application/vnd.openxmlformats-officedocument.presentationml.presentation",
     "text/plain", "text/csv", "text/markdown", "text/rtf", "application/rtf"}

code_extensions ==
    {<<".","p","y">>, <<".","j","s">>, <<".","t","s">>, <<".","j","s","x">>,
     <<".","t","s","x">>, <<".","j","a","v","a">>, <<".","c">>,
     <<".","c","p","p">>, <<".","c","s">>, <<".","g","o">>, <<".","r","s">>,
     <<".","p","h","p">>, <<".","r","b">>, <<".","s","w","i","f","t">>,
     <<".","k","t">>, <<".","s","c","a","l","a">>, <<".","r">>,
     <<".","s","h">>, <<".","b","a","t">>, <<".","p","s","1">>,
     <<".","y","a","m","l">>, <<".","y","m","l">>, <<".","j","s","o","n">>,
     <<".","x","m","l">>, <<".","h","t","m","l">>, <<".","c","s","s">>,
     <<".","s","c","s","s">>, <<".","s","a","s","s">>, <<".","s","q","l">>,
     <<".","d","o","c","k","e","r","f","i","l","e">>,
     <<".","m","a","k","e","f","i","l","e">>}

archive_types ==
    {"application/zip", "application/x-zip-compressed",
     "application/x-rar-compressed", "application/x-tar",
     "application/x-7z-compressed", "application/gzip", "application/x-bzip2"}

\* an absent filename (None); the empty string is falsy in the same way
NoFilename == <<>>

classify_attachment_type(content_type, filename) ==
    LET ct == lower(content_type)
        ext == lower_name(suffix(filename))
    IN  IF startswith(ct, "image/") THEN TYPE_IMAGE
        ELSE IF ct \in document_types THEN TYPE_DOCUMENT
        ELSE IF /\ filename # NoFilename
                /\ (ext \in code_extensions \/ startswith(ct, "text/"))
             THEN TYPE_DOCUMENT
        ELSE IF startswith(ct, "audio/") THEN TYPE_OTHER
        ELSE IF ct \in archive_types THEN TYPE_OTHER
        ELSE IF startswith(ct, "video/") THEN TYPE_OTHER
        ELSE TYPE_OTHER

\* the filename the modelled requests declare (AttachmentUploadRequest.filename)
request_filename == <<"n", "o", "t", "e", "s", ".", "t", "x", "t">>

\* {user}/conversations/{conv}/{date}/{time in microseconds}_{name}
generate_storage_path(user, conv, now) == <<user, conv, now>>

\* uuid4() of a new row: a fresh public identifier, distinct from the numeric id
new_uuid(id) == 100 + id

\* ------------------------------------------------------------------- state
VARIABLES
    attachments,   \* attachments table: id -> row (committed state)
    nextId,        \* SERIAL of attachments.id
    clock,         \* datetime.now(UTC), in microseconds
    blobs,         \* blob container: storage path -> bytes
    messages,      \* messages table: committed rows, oldest first
    req,           \* per request slot: handler position and session-local data
    resp,          \* the response sent by the step just taken, if it sent one
    settings,      \* the application settings the handlers read
    call,          \* the get_ai_response call in progress: arguments and position
    tmp_files,     \* local temporary files that exist
    gemini_files,  \* files held by the generative provider
    input,         \* argument of the pure function under study
    output         \* its successive results

routeVars == <<attachments, nextId, clock, blobs, messages, req, resp, settings>>
aiVars == <<call, tmp_files, gemini_files>>
fnVars == <<input, output>>
vars == <<routeVars, aiVars, fnVars, settings>>

IdleReq ==
    [op |-> "none", pc |-> "idle", user |-> "-", conv |-> 0, uuid |-> 0,
     att |-> 0, content |-> <<>>, ctype |-> "-", status |-> "-",
     path |-> <<>>, perm |-> FALSE, flushed |-> <<>>, out |-> {}, uuids |-> {}]

\* att is the row the request named by its public identifier (0: no such row),
\* for initiate the row it created
NoResp ==
    [op |-> "none", result |-> "none", att |-> 0, perm |-> FALSE,
     include_deleted |-> FALSE, out |-> {}, updated |-> 0, requested |-> 0,
     upload_method |-> "-", upload_url |-> <<>>, expires_at |-> 0]

Response(op, result, att) == [NoResp EXCEPT !.op = op, !.result = result, !.att = att]

\* request p is at position pc, and the last response has left the server
At(p, pc) == resp = NoResp /\ req[p].pc = pc

\* a new request is served by the lowest slot that is free
Free(p) == /\ At(p, "idle")
           /\ \A q \in Procs : q < p => req[q].pc # "idle"

Rows == DOMAIN attachments

\* identifiers a client may send: those handed out so far and one unknown
KnownUuids == {new_uuid(i) : i \in 0..MaxRows}

\* the row that carries a public identifier (uuid is UNIQUE), 0 when there is none
Named(uuid) ==
    IF \E a \in Rows : attachments[a].uuid = uuid
    THEN CHOOSE a \in Rows : attachments[a].uuid = uuid
    ELSE 0

\* no AI call in progress, no pure function under study
NoCall == [pc |-> "none"]

Elsewhere ==
    /\ call = NoCall
    /\ tmp_files = {}
    /\ gemini_files = {}
    /\ input = <<>>
    /\ output = <<>>

\* settings.persist_attachment_preferences as create_message reads it: FALSE
\* stands for an attribute that is missing or false
Settings == [persist_attachment_preferences : BOOLEAN]

DefaultSettings == [persist_attachment_preferences |-> FALSE]

Init ==
    /\ attachments = <<>>
    /\ nextId = 1
    /\ clock = 1
    /\ blobs = <<>>
    /\ messages = <<>>
    /\ req = [p \in Procs |-> IdleReq]
    /\ resp = NoResp
    /\ settings = DefaultSettings
    /\ Elsewhere

\* ------------------------------------------------ initiate_attachment_upload
NonDeletedCount(conv) ==
    Cardinality({a \in Rows : attachments[a].conversation_id = conv
                              /\ attachments[a].status # DELETED})

InitiateReject(user, conv, size) ==
    IF owner_id(conv) # user THEN "NotFound"
    ELSE IF size > max_file_size THEN "TooLarge"
    ELSE IF NonDeletedCount(conv) >= MaxAttachmentsPerConversation THEN "TooMany"
    ELSE "none"

\* ownership check, size check and the count query
InitiateCheck(p, user, conv, size, ctype) ==
    /\ Free(p)
    /\ IF InitiateReject(user, conv, size) # "none"
       THEN /\ resp' = Response("initiate", InitiateReject(user, conv, size), 0)
            /\ UNCHANGED req
       ELSE /\ req' = [req EXCEPT ![p] =
                        [IdleReq EXCEPT !.op = "initiate", !.pc = "init_commit",
                                        !.user = user, !.conv = conv,
                                        !.att = size, !.ctype = ctype]]
            /\ resp' = NoResp
    /\ UNCHANGED <<attachments, nextId, clock, blobs, messages, aiVars, fnVars, settings>>

NewAttachment(id, user, conv, size, ctype, now) ==
    [uuid |-> new_uuid(id), conversation_id |-> conv, uploader_id |-> user,
     filename |-> request_filename,
     content_type |-> ctype, file_size |-> size,
     attachment_type |-> classify_attachment_type(ctype, request_filename),
     status |-> PENDING, file_hash |-> "pending",
     storage_path |-> generate_storage_path(user, conv, now),
     activity_status |-> INACTIVE]

\* the configured backend: get_storage_backend() builds an AzureFileStorage
storage_backend == "AzureFileStorage"

\* settings.upload_url_expiry, in seconds
upload_url_expiry == 3600

\* AzureFileStorage.generate_presigned_url: the blob's URL with a SAS token
generate_presigned_url(path) == <<"sas", path>>

\* what the call at lines 113-116 can do: return the URL, or raise (<<>>)
PresignedOutcomes(path) == {generate_presigned_url(path), <<>>}

\* the method is direct although no URL was generated
AttachmentUploadResponse_AlwaysDirect(att, url, now) ==
    [Response("initiate", "OK", att) EXCEPT
        !.upload_method = "direct", !.upload_url = url,
        !.expires_at = IF url # <<>> THEN now + upload_url_expiry ELSE 0]

\* lines 104-125: "api" by default; with an Azure backend whose URL generation
\* did not raise, the URL, "direct" and the expiry time
AttachmentUploadResponse(att, url, now) ==
    IF storage_backend = "AzureFileStorage" /\ url # <<>>
    THEN [Response("initiate", "OK", att) EXCEPT
            !.upload_method = "direct", !.upload_url = url,
            !.expires_at = now + upload_url_expiry]
    ELSE [Response("initiate", "OK", att) EXCEPT !.upload_method = "api"]

\* db.add(attachment); commit; the response
InitiateCommit(p) ==
    /\ At(p, "init_commit")
    /\ nextId <= MaxRows
    /\ attachments' = (nextId :> NewAttachment(nextId, req[p].user, req[p].conv,
                                               req[p].att, req[p].ctype, clock))
                      @@ attachments
    /\ nextId' = nextId + 1
    /\ clock' = clock + 1
    /\ req' = [req EXCEPT ![p] = IdleReq]
    /\ \E url \in PresignedOutcomes(attachments'[nextId].storage_path) :
          resp' = AttachmentUploadResponse(nextId, url, clock')
    /\ UNCHANGED <<blobs, messages, aiVars, fnVars, settings>>

\* the join on the conversation's owner left out
LocatePending_AnyOwner(user, conv, uuid) ==
    {a \in Rows : /\ attachments[a].uuid = uuid
                  /\ attachments[a].conversation_id = conv
                  /\ attachments[a].status = PENDING}

\* -------------------------------------------------- upload_attachment_content
\* the SELECT ... JOIN conversations of lines 149-161
LocatePending(user, conv, uuid) ==
    {a \in Rows : /\ attachments[a].uuid = uuid
                  /\ attachments[a].conversation_id = conv
                  /\ owner_id(attachments[a].conversation_id) = user
                  /\ attachments[a].status = PENDING}

\* the length comparison left out: any body passes
SizeMatches_Unchecked(content, a) == TRUE

SizeMatches(content, a) == Len(content) = attachments[a].file_size

\* locate the row, read the body, compare its length with the declared size
UploadLocate(p, user, conv, uuid, content) ==
    /\ Free(p)
    /\ LET found == LocatePending(user, conv, uuid)
       IN  IF found = {}
           THEN /\ resp' = Response("upload", "NotFound", Named(uuid))
                /\ UNCHANGED req
           ELSE LET a == CHOOSE x \in found : TRUE
                IN  IF ~SizeMatches(content, a)
                    THEN /\ resp' = Response("upload", "SizeMismatch", a)
                         /\ UNCHANGED req
                    ELSE /\ req' = [req EXCEPT ![p] =
                                [IdleReq EXCEPT !.op = "upload", !.pc = "up_dup",
                                     !.user = user, !.conv = conv, !.uuid = uuid,
                                     !.att = a, !.content = content,
                                     !.ctype = attachments[a].content_type,
                                     !.path = attachments[a].storage_path]]
                         /\ resp' = NoResp
    /\ UNCHANGED <<attachments, nextId, clock, blobs, messages, aiVars, fnVars, settings>>

\* the status filter of the duplicate query left out
Duplicates_AnyStatus(conv, hash, self) ==
    {b \in Rows : /\ attachments[b].conversation_id = conv
                  /\ attachments[b].file_hash = hash
                  /\ b # self}

\* the duplicate query left out: no upload is ever a duplicate
Duplicates_None(conv, hash, self) == {}

\* the duplicate query of lines 186-196
Duplicates(conv, hash, self) ==
    {b \in Rows : /\ attachments[b].conversation_id = conv
                  /\ attachments[b].file_hash = hash
                  /\ b # self
                  /\ attachments[b].status = UPLOADED}

\* the blob written before the duplicate query instead of after it
UploadDupCheck_StoreFirst(p) ==
    /\ At(p, "up_dup")
    /\ blobs' = (req[p].path :> req[p].content) @@ blobs
    /\ req' = [req EXCEPT ![p].pc =
            IF {b \in Rows : /\ attachments[b].conversation_id = req[p].conv
                             /\ attachments[b].file_hash = calculate_file_hash(req[p].content)
                             /\ b # req[p].att
                             /\ attachments[b].status = UPLOADED} # {}
            THEN "up_conflict" ELSE "up_store"]
    /\ resp' = NoResp
    /\ UNCHANGED <<attachments, nextId, clock, messages, aiVars, fnVars, settings>>

UploadDupCheck(p) ==
    /\ At(p, "up_dup")
    /\ req' = [req EXCEPT ![p].pc =
            IF Duplicates(req[p].conv, calculate_file_hash(req[p].content), req[p].att) # {}
            THEN "up_conflict" ELSE "up_store"]
    /\ resp' = NoResp
    /\ UNCHANGED <<attachments, nextId, clock, blobs, messages, aiVars, fnVars, settings>>

\* db.delete left out: the row stays
RemoveRow_Kept(a) == attachments

RemoveRow(a) == [b \in Rows \ {a} |-> attachments[b]]

\* db.delete(attachment); commit; raise 409
UploadConflict(p) ==
    /\ At(p, "up_conflict")
    /\ attachments' = RemoveRow(req[p].att)
    /\ req' = [req EXCEPT ![p] = IdleReq]
    /\ resp' = Response("upload", "Conflict", req[p].att)
    /\ UNCHANGED <<nextId, clock, blobs, messages, aiVars, fnVars, settings>>

\* AzureFileStorage.store: upload_blob(overwrite=True)
store(content, path) == (path :> content) @@ blobs

\* the detected content type written without a new classification
WithDetectedType_TypeKept(row, r) ==
    IF detect_content_type(r.content) # r.ctype
    THEN [row EXCEPT !.content_type = detect_content_type(r.content)]
    ELSE row

\* the detected type ignored: the declared type and its classification stay
WithDetectedType_DeclaredKept(row, r) == row

\* lines 207-219: a detected type that differs from the loaded one replaces it,
\* together with the attachment type; only then are the two columns written
WithDetectedType(row, r) ==
    IF detect_content_type(r.content) # r.ctype
    THEN [row EXCEPT !.content_type = detect_content_type(r.content),
                     !.attachment_type =
                         classify_attachment_type(detect_content_type(r.content),
                                                  row.filename)]
    ELSE row

\* storage_backend.store succeeds
UploadStore(p) ==
    /\ At(p, "up_store")
    /\ blobs' = store(req[p].content, req[p].path)
    /\ req' = [req EXCEPT ![p].pc = "up_commit"]
    /\ resp' = NoResp
    /\ UNCHANGED <<attachments, nextId, clock, messages, aiVars, fnVars, settings>>

\* storage_backend.store raises
UploadStoreRaises(p) ==
    /\ At(p, "up_store")
    /\ req' = [req EXCEPT ![p].pc = "up_fail"]
    /\ resp' = NoResp
    /\ UNCHANGED <<attachments, nextId, clock, blobs, messages, aiVars, fnVars, settings>>

\* the commit sets UPLOADED but leaves the hash written at initiation
MarkUploaded_HashKept(row, r) ==
    [WithDetectedType(row, r) EXCEPT !.status = UPLOADED]

MarkUploaded(row, r) ==
    [WithDetectedType(row, r) EXCEPT !.file_hash = calculate_file_hash(r.content),
                                     !.status = UPLOADED]

\* lines 225-245: the UPDATE of the row; it matches no row when the row is gone,
\* and the handler then ends in an unhandled error
UploadCommit(p) ==
    /\ At(p, "up_commit")
    /\ IF req[p].att \in Rows
       THEN /\ attachments' = [attachments EXCEPT ![req[p].att] = MarkUploaded(@, req[p])]
            /\ req' = [req EXCEPT ![p].pc = "up_respond"]
            /\ resp' = NoResp
       ELSE /\ UNCHANGED attachments
            /\ req' = [req EXCEPT ![p] = IdleReq]
            /\ resp' = Response("upload", "ServerError", 0)
    /\ UNCHANGED <<nextId, clock, blobs, messages, aiVars, fnVars, settings>>

\* lines 246-255: refresh and serialisation of the committed row
UploadRespond(p) ==
    /\ At(p, "up_respond")
    /\ req' = [req EXCEPT ![p] = IdleReq]
    /\ resp' = Response("upload", "OK", req[p].att)
    /\ UNCHANGED <<attachments, nextId, clock, blobs, messages, aiVars, fnVars, settings>>

\* a step after the commit raises inside the try block
UploadRespondRaises(p) ==
    /\ At(p, "up_respond")
    /\ req' = [req EXCEPT ![p].pc = "up_fail"]
    /\ resp' = NoResp
    /\ UNCHANGED <<attachments, nextId, clock, blobs, messages, aiVars, fnVars, settings>>

\* the failure handler commits the row without setting FAILED
MarkFailed_StatusKept(row, r) == WithDetectedType(row, r)

MarkFailed(row, r) == [WithDetectedType(row, r) EXCEPT !.status = FAILED]

\* lines 259-268: except Exception: status = FAILED; commit
UploadFail(p) ==
    /\ At(p, "up_fail")
    /\ IF req[p].att \in Rows
       THEN /\ attachments' = [attachments EXCEPT ![req[p].att] = MarkFailed(@, req[p])]
            /\ resp' = Response("upload", "UploadFailed", req[p].att)
       ELSE /\ UNCHANGED attachments
            /\ resp' = Response("upload", "ServerError", 0)
    /\ req' = [req EXCEPT ![p] = IdleReq]
    /\ UNCHANGED <<nextId, clock, blobs, messages, aiVars, fnVars, settings>>

\* the status filter left out: a DELETED row is located as well
LocateNotDeleted_AnyStatus(user, conv, uuid) ==
    {a \in Rows : /\ attachments[a].uuid = uuid
                  /\ attachments[a].conversation_id = conv
                  /\ owner_id(attachments[a].conversation_id) = user}

\* ------------------------------------------------------------ delete_attachment
\* the SELECT ... JOIN conversations of lines 393-405
LocateNotDeleted(user, conv, uuid) ==
    {a \in Rows : /\ attachments[a].uuid = uuid
                  /\ attachments[a].conversation_id = conv
                  /\ owner_id(attachments[a].conversation_id) = user
                  /\ attachments[a].status # DELETED}

DeleteLocate(p, user, conv, uuid, permanent) ==
    /\ Free(p)
    /\ LET found == LocateNotDeleted(user, conv, uuid)
       IN  IF found = {}
           THEN /\ resp' = [Response("delete", "NotFound", Named(uuid))
                                EXCEPT !.perm = permanent]
                /\ UNCHANGED req
           ELSE LET a == CHOOSE x \in found : TRUE
                IN  /\ req' = [req EXCEPT ![p] =
                           [IdleReq EXCEPT !.op = "delete", !.user = user,
                                !.conv = conv, !.uuid = uuid, !.att = a,
                                !.perm = permanent,
                                !.status = attachments[a].status,
                                !.path = attachments[a].storage_path,
                                !.pc = IF permanent /\ attachments[a].status = UPLOADED
                                       THEN "del_blob" ELSE "del_commit"]]
                    /\ resp' = NoResp
    /\ UNCHANGED <<attachments, nextId, clock, blobs, messages, aiVars, fnVars, settings>>

\* AzureFileStorage.delete: delete_blob
delete(path) == [q \in DOMAIN blobs \ {path} |-> blobs[q]]

DeleteBlob(p) ==
    /\ At(p, "del_blob")
    /\ blobs' = delete(req[p].path)
    /\ req' = [req EXCEPT ![p].pc = "del_commit"]
    /\ resp' = NoResp
    /\ UNCHANGED <<attachments, nextId, clock, messages, aiVars, fnVars, settings>>

\* delete_blob raises: logged, the metadata deletion goes on
DeleteBlobRaises(p) ==
    /\ At(p, "del_blob")
    /\ req' = [req EXCEPT ![p].pc = "del_commit"]
    /\ resp' = NoResp
    /\ UNCHANGED <<attachments, nextId, clock, blobs, messages, aiVars, fnVars, settings>>

\* Attachment.soft_delete()
soft_delete(row) == [row EXCEPT !.status = DELETED]

\* db.delete(attachment) or soft_delete(), then commit; the UPDATE of a row
\* that is gone matches no row and the handler ends in an unhandled error
DeleteCommit(p) ==
    /\ At(p, "del_commit")
    /\ IF req[p].perm
       THEN /\ attachments' = RemoveRow(req[p].att)
            /\ resp' = [Response("delete", "OK", req[p].att) EXCEPT !.perm = TRUE]
       ELSE IF req[p].att \in Rows
       THEN /\ attachments' = [attachments EXCEPT ![req[p].att] = soft_delete(@)]
            /\ resp' = Response("delete", "OK", req[p].att)
       ELSE /\ UNCHANGED attachments
            /\ resp' = Response("delete", "ServerError", 0)
    /\ req' = [req EXCEPT ![p] = IdleReq]
    /\ UNCHANGED <<nextId, clock, blobs, messages, aiVars, fnVars, settings>>

\* the ownership condition of the download query left out
LocateUploaded_AnyOwner(user, conv, uuid) ==
    {a \in Rows : /\ attachments[a].uuid = uuid
                  /\ attachments[a].conversation_id = conv
                  /\ attachments[a].status = UPLOADED}

\* ------------------------------------------------------------ download_attachment
\* the SELECT ... JOIN conversations of lines 336-348
LocateUploaded(user, conv, uuid) ==
    {a \in Rows : /\ attachments[a].uuid = uuid
                  /\ attachments[a].conversation_id = conv
                  /\ owner_id(attachments[a].conversation_id) = user
                  /\ attachments[a].status = UPLOADED}

\* lines 350-372: 404 when no row is found; otherwise a redirect to a presigned
\* URL of the blob, or 500 when generating the URL raises
Download(p, user, conv, uuid) ==
    /\ Free(p)
    /\ LET found == LocateUploaded(user, conv, uuid)
       IN  IF found = {}
           THEN resp' = Response("download", "NotFound", 0)
           ELSE LET a == CHOOSE x \in found : TRUE
                IN  \E url \in PresignedOutcomes(attachments[a].storage_path) :
                       resp' = IF url = <<>>
                               THEN Response("download", "ServerError", a)
                               ELSE [Response("download", "Redirect", a) EXCEPT
                                        !.upload_url = url]
    /\ UNCHANGED <<attachments, nextId, clock, blobs, messages, req, aiVars, fnVars, settings>>

\* the include_deleted switch ignored: every row of the conversation is listed
ListQuery_All(conv, include_deleted) ==
    {a \in Rows : attachments[a].conversation_id = conv}

\* --------------------------------------------------- list_conversation_attachments
\* the query of lines 289-297
ListQuery(conv, include_deleted) ==
    {a \in Rows : /\ attachments[a].conversation_id = conv
                  /\ (include_deleted \/ attachments[a].status # DELETED)}

List(p, user, conv, include_deleted) ==
    /\ Free(p)
    /\ resp' = IF owner_id(conv) # user
               THEN Response("list", "NotFound", 0)
               ELSE [Response("list", "OK", 0) EXCEPT
                         !.include_deleted = include_deleted,
                         !.out = ListQuery(conv, include_deleted)]
    /\ UNCHANGED <<attachments, nextId, clock, blobs, messages, req, aiVars, fnVars, settings>>

\* ------------------------------------------------ update_attachment_activity_status
\* the SELECT of lines 477-487
BatchQuery(conv, uuids) ==
    {a \in Rows : /\ attachments[a].conversation_id = conv
                  /\ attachments[a].uuid \in uuids
                  /\ attachments[a].status = UPLOADED}

\* iterating an AttachmentActivityUpdate yields its (field name, value) tuples
IterItems(update) ==
    {<<"uuid", update.uuid>>, <<"activity_status", update.activity_status>>}

\* `key in update`: the schema object defines no __contains__, so Python walks
\* its iteration and compares the str with every item; the str, written here
\* as the one-element tuple <<key>>, equals none of the two-element items
Contains(update, key) == <<key>> \in IterItems(update)

\* the validation loop of lines 461-473
BatchReject(updates) ==
    IF \E i \in DOMAIN updates :
          ~Contains(updates[i], "uuid") \/ ~Contains(updates[i], "activity_status")
    THEN "BadRequest"
    ELSE IF \E i \in DOMAIN updates : updates[i].activity_status \notin {ACTIVE, INACTIVE}
    THEN "BadRequest"
    ELSE "none"

\* the dict built by the loop: a later entry for the same id wins
uuid_to_status(updates) ==
    [u \in {updates[i].uuid : i \in DOMAIN updates} |->
        LET last == CHOOSE i \in DOMAIN updates :
                        /\ updates[i].uuid = u
                        /\ \A j \in DOMAIN updates : updates[j].uuid = u => j <= i
        IN  updates[last].activity_status]

\* the validation, the conversation filter and the status filter left out:
\* every named row gets the requested activity status
BatchActivity_AnyRow(p, user, conv, updates) ==
    /\ Free(p)
    /\ IF owner_id(conv) # user
       THEN /\ resp' = Response("batch", "NotFound", 0)
            /\ UNCHANGED attachments
       ELSE LET found == {a \in Rows :
                            attachments[a].uuid \in DOMAIN uuid_to_status(updates)}
            IN  /\ attachments' =
                     [a \in Rows |->
                        IF a \in found
                        THEN [attachments[a] EXCEPT
                                !.activity_status =
                                    uuid_to_status(updates)[attachments[a].uuid]]
                        ELSE attachments[a]]
                /\ resp' = [Response("batch", "OK", 0) EXCEPT
                                !.out = found,
                                !.updated = Cardinality(found),
                                !.requested = Len(updates)]
    /\ UNCHANGED <<nextId, clock, blobs, messages, req, aiVars, fnVars, settings>>

BatchActivity(p, user, conv, updates) ==
    /\ Free(p)
    /\ IF owner_id(conv) # user
       THEN /\ resp' = Response("batch", "NotFound", 0)
            /\ UNCHANGED attachments
       ELSE IF BatchReject(updates) # "none"
       THEN /\ resp' = Response("batch", BatchReject(updates), 0)
            /\ UNCHANGED attachments
       ELSE LET found == BatchQuery(conv, DOMAIN uuid_to_status(updates))
            IN  /\ attachments' =
                     [a \in Rows |->
                        IF a \in found
                        THEN [attachments[a] EXCEPT
                                !.activity_status =
                                    uuid_to_status(updates)[attachments[a].uuid]]
                        ELSE attachments[a]]
                /\ resp' = [Response("batch", "OK", 0) EXCEPT
                                !.out = found,
                                !.updated = Cardinality(found),
                                !.requested = Len(updates)]
    /\ UNCHANGED <<nextId, clock, blobs, messages, req, aiVars, fnVars, settings>>

\* request bodies: one or two entries (the schema rejects an empty list)
BatchUpdates ==
    LET Entry == [uuid : KnownUuids, activity_status : {ACTIVE, INACTIVE}]
    IN  {<<e>> : e \in Entry} \cup {<<e, f>> : e \in Entry, f \in Entry}

\* ---------------------------------------------------------------- create_message
\* the SELECT of lines 217-227
ActiveAttachments(conv, uuids) ==
    {a \in Rows : /\ attachments[a].uuid \in uuids
                  /\ attachments[a].conversation_id = conv
                  /\ attachments[a].status = UPLOADED}

UserMessage(conv, text) == [conversation_id |-> conv, role |-> "user", content |-> text]

AssistantMessage(conv) ==
    [conversation_id |-> conv, role |-> "assistant", content |-> "reply"]

\* ownership check, db.add(user_message) and flush (the INSERT stays uncommitted
\* in the request's transaction), then the attachment query
MessageBegin(p, user, conv, text, uuids) ==
    /\ Free(p)
    /\ IF owner_id(conv) # user
       THEN /\ resp' = Response("message", "NotFound", 0)
            /\ UNCHANGED req
       ELSE /\ req' = [req EXCEPT ![p] =
                   [IdleReq EXCEPT !.op = "message", !.pc = "msg_ai", !.conv = conv,
                        !.user = user,
                        !.flushed = <<UserMessage(conv, text)>>,
                        !.uuids = uuids,
                        !.out = ActiveAttachments(conv, uuids)]]
            /\ resp' = NoResp
    /\ UNCHANGED <<attachments, nextId, clock, blobs, messages, aiVars, fnVars, settings>>

\* a message request arrives while the messages table has room for the
\* exchange
MessageStart(p, user, conv, text, uuids, cap) ==
    /\ Len(messages) + 2 <= cap
    /\ MessageBegin(p, user, conv, text, uuids)

\* blobs are fetched, get_ai_response returns the reply, db.add(assistant_message)
MessageAI(p) ==
    /\ At(p, "msg_ai")
    /\ req' = [req EXCEPT ![p].pc = "msg_commit",
                          ![p].flushed = Append(@, AssistantMessage(req[p].conv))]
    /\ resp' = NoResp
    /\ UNCHANGED <<attachments, nextId, clock, blobs, messages, aiVars, fnVars, settings>>

\* get_ai_response (or a step before it) raises
MessageAIRaises(p) ==
    /\ At(p, "msg_ai")
    /\ req' = [req EXCEPT ![p].pc = "msg_fail"]
    /\ resp' = NoResp
    /\ UNCHANGED <<attachments, nextId, clock, blobs, messages, aiVars, fnVars, settings>>

\* the listed attachments set ACTIVE, the others left as they are
PersistPreferences_OnlyActivate(conv, uuids) ==
    [a \in Rows |->
        IF /\ attachments[a].conversation_id = conv
           /\ attachments[a].status = UPLOADED
           /\ attachments[a].uuid \in uuids
        THEN [attachments[a] EXCEPT !.activity_status = ACTIVE]
        ELSE attachments[a]]

\* the UPDATE of lines 290-304: every UPLOADED row of the conversation gets
\* ACTIVE when its uuid is listed and INACTIVE otherwise
PersistPreferences(conv, uuids) ==
    [a \in Rows |->
        IF /\ attachments[a].conversation_id = conv
           /\ attachments[a].status = UPLOADED
        THEN [attachments[a] EXCEPT
                !.activity_status =
                    IF attachments[a].uuid \in uuids THEN ACTIVE ELSE INACTIVE]
        ELSE attachments[a]]

\* lines 287-315: the optional UPDATE of the activity statuses, then the commit
\* of the user message, the reply and the UPDATE
MessageCommit(p) ==
    /\ At(p, "msg_commit")
    /\ messages' = messages \o req[p].flushed
    /\ attachments' = IF /\ settings.persist_attachment_preferences
                         /\ req[p].uuids # {}
                      THEN PersistPreferences(req[p].conv, req[p].uuids)
                      ELSE attachments
    /\ req' = [req EXCEPT ![p] = IdleReq]
    /\ resp' = [Response("message", "OK", 0) EXCEPT !.out = req[p].out]
    /\ UNCHANGED <<nextId, clock, blobs, aiVars, fnVars, settings>>

\* AsyncSession.rollback(): every uncommitted INSERT of the transaction is undone
rollback(flushed) == <<>>

\* lines 317-329: rollback, then commit of what is left; refresh(user_message) of
\* the rolled-back row raises and the request ends in an unhandled error
MessageFail(p) ==
    /\ At(p, "msg_fail")
    /\ messages' = messages \o rollback(req[p].flushed)
    /\ req' = [req EXCEPT ![p] = IdleReq]
    /\ resp' = Response("message", "ServerError", 0)
    /\ UNCHANGED <<attachments, nextId, clock, blobs, aiVars, fnVars, settings>>

\* ------------------------------------------------------------ specifications
\* the steps a request in flight takes after its first one
AttachmentStep(p) ==
    \/ InitiateCommit(p)
    \/ UploadDupCheck(p)
    \/ UploadConflict(p)
    \/ UploadStore(p)
    \/ UploadStoreRaises(p)
    \/ UploadCommit(p)
    \/ UploadRespond(p)
    \/ UploadRespondRaises(p)
    \/ UploadFail(p)
    \/ DeleteBlob(p)
    \/ DeleteBlobRaises(p)
    \/ DeleteCommit(p)

MessageStep(p) ==
    \/ MessageAI(p)
    \/ MessageAIRaises(p)
    \/ MessageCommit(p)
    \/ MessageFail(p)

AttachmentStart(p, users, convs) ==
    \/ \E user \in users, conv \in convs, size \in 1..(max_file_size + 1),
          ctype \in allowed_content_types :
            InitiateCheck(p, user, conv, size, ctype)
    \/ \E user \in users, conv \in convs, uuid \in KnownUuids, content \in Contents :
            UploadLocate(p, user, conv, uuid, content)
    \/ \E user \in users, conv \in convs, uuid \in KnownUuids, permanent \in BOOLEAN :
            DeleteLocate(p, user, conv, uuid, permanent)

OtherStart(p) ==
    \/ \E user \in Users, conv \in Convs, include_deleted \in BOOLEAN :
            List(p, user, conv, include_deleted)
    \/ \E user \in Users, conv \in Convs, uuid \in KnownUuids :
            Download(p, user, conv, uuid)
    \/ \E user \in Users, conv \in Convs, updates \in BatchUpdates :
            BatchActivity(p, user, conv, updates)
    \/ \E user \in Users, conv \in Convs, text \in MsgTexts, uuids \in SUBSET KnownUuids :
            MessageStart(p, user, conv, text, uuids, MaxMsgs)

\* the response leaves the server; the next step is taken after that
Deliver ==
    /\ resp # NoResp
    /\ resp' = NoResp
    /\ UNCHANGED <<attachments, nextId, clock, blobs, messages, req, aiVars, fnVars, settings>>

\* Spec: the attachment requests of one user on one conversation, overlapping
\* in time in every possible way
Next ==
    \/ \E p \in Procs : AttachmentStart(p, {"u1"}, {1}) \/ AttachmentStep(p)
    \/ Deliver

Spec == Init /\ [][Next]_vars

\* SpecSeq: every handler, both users and both conversations, served by a
\* single slot, so that requests do not overlap in time
NextSeq ==
    \/ \E p \in {1} :
            \/ AttachmentStart(p, Users, Convs)
            \/ OtherStart(p)
            \/ AttachmentStep(p)
            \/ MessageStep(p)
    \/ Deliver

SpecSeq == Init /\ [][NextSeq]_vars

\* SpecRace: conversation 1 already holds one UPLOADED attachment; uploads and
\* deletes of user u1 overlap in every possible way, while an initiate request
\* starts only when no other initiate request is in flight
ExistingContent == <<0>>

ExistingAttachment ==
    [NewAttachment(0, "u1", 1, Len(ExistingContent), "text/plain", 0) EXCEPT
        !.status = UPLOADED,
        !.file_hash = calculate_file_hash(ExistingContent)]

InitRace ==
    /\ attachments = (0 :> ExistingAttachment)
    /\ nextId = 1
    /\ clock = 1
    /\ blobs = (ExistingAttachment.storage_path :> ExistingContent)
    /\ messages = <<>>
    /\ req = [p \in Procs |-> IdleReq]
    /\ resp = NoResp
    /\ settings = DefaultSettings
    /\ Elsewhere

InitiateAlone(p, user, conv, size, ctype) ==
    /\ \A q \in Procs : req[q].op # "initiate"
    /\ InitiateCheck(p, user, conv, size, ctype)

NextRace ==
    \/ \E p \in Procs :
          \/ \E size \in 1..MaxLen, ctype \in allowed_content_types :
                InitiateAlone(p, "u1", 1, size, ctype)
          \/ \E uuid \in KnownUuids, content \in Contents :
                UploadLocate(p, "u1", 1, uuid, content)
          \/ \E uuid \in KnownUuids, permanent \in BOOLEAN :
                DeleteLocate(p, "u1", 1, uuid, permanent)
          \/ AttachmentStep(p)
    \/ Deliver

SpecRace == InitRace /\ [][NextRace]_vars

\* SpecPrefs: conversation 1 already holds two UPLOADED attachments; messages
\* are created and attachments deleted, one request at a time, with the
\* persistence of activity preferences switched on or off
SecondContent == <<1>>

SecondAttachment ==
    [NewAttachment(1, "u1", 1, Len(SecondContent), "text/plain", 1) EXCEPT
        !.status = UPLOADED,
        !.file_hash = calculate_file_hash(SecondContent),
        !.content_type = detect_content_type(SecondContent),
        !.attachment_type =
            classify_attachment_type(detect_content_type(SecondContent),
                                     request_filename)]

InitPrefs ==
    /\ attachments = (0 :> ExistingAttachment) @@ (1 :> SecondAttachment)
    /\ nextId = 2
    /\ clock = 2
    /\ blobs = (ExistingAttachment.storage_path :> ExistingContent)
               @@ (SecondAttachment.storage_path :> SecondContent)
    /\ messages = <<>>
    /\ req = [p \in Procs |-> IdleReq]
    /\ resp = NoResp
    /\ settings \in Settings
    /\ Elsewhere

NextPrefs ==
    \/ \E p \in {1} :
          \/ \E user \in Users, conv \in Convs, text \in MsgTexts,
                uuids \in SUBSET KnownUuids :
                MessageStart(p, user, conv, text, uuids, MaxPrefMsgs)
          \/ MessageStep(p)
          \/ \E uuid \in KnownUuids, permanent \in BOOLEAN :
                DeleteLocate(p, "u1", 1, uuid, permanent)
          \/ DeleteBlob(p)
          \/ DeleteBlobRaises(p)
          \/ DeleteCommit(p)
    \/ Deliver

SpecPrefs == InitPrefs /\ [][NextPrefs]_vars

\* ------------------------------------------------- create_message: the AI call
\* ModelChoice: the deployments of the chat-completion provider and the
\* generative provider
GPT_4_1_NANO == "gpt-4.1-nano"
GPT_4_1 == "gpt-4.1"
GEMINI_2_FLASH_EXP == "gemini-2.0-flash-exp"
ModelChoices == {GPT_4_1_NANO, GPT_4_1, GEMINI_2_FLASH_EXP}

RecentLimit == 20       \* .limit(20) of create_message
AzureHistory == 10      \* messages[-10:] of the chat-completion handler
GeminiHistory == 20     \* messages[-20:] of the generative handler

\* s[-n:]
Last(s, n) == IF Len(s) <= n THEN s ELSE SubSeq(s, Len(s) - n + 1, Len(s))

\* the conversation's messages before the request, oldest first: user and
\* assistant turns, identified by their position
StoredMessages(n) ==
    [i \in 1..n |-> [id |-> i, role |-> IF i % 2 = 1 THEN "user" ELSE "assistant"]]

\* one entry of attachment_contexts: its attachment type and what text
\* extraction makes of its bytes (an image is not extracted)
AttachmentKinds ==
    {[type |-> TYPE_IMAGE, extracted |-> "-"],
     [type |-> TYPE_DOCUMENT, extracted |-> "text"],
     [type |-> TYPE_DOCUMENT, extracted |-> "blank"],
     [type |-> TYPE_OTHER, extracted |-> "placeholder"]}

AttachmentContexts == UNION {[1..n -> AttachmentKinds] : n \in 0..MaxActive}

Part(type, att) == [type |-> type, att |-> att]

Entry(role, id, parts) == [role |-> role, id |-> id, parts |-> parts]

\* image_contents with every attachment embedded as an image
image_contents_All(atts) == [i \in 1..Len(atts) |-> Part("image_url", i)]

\* the attachments, by position, that yield an inline image
image_contents(atts) ==
    SelectSeq([i \in 1..Len(atts) |-> Part("image_url", i)],
              LAMBDA part : atts[part.att].type = TYPE_IMAGE)

\* the attachments, by position, whose extracted text is not blank
document_contexts(atts) ==
    SelectSeq([i \in 1..Len(atts) |-> Part("document", i)],
              LAMBDA part : /\ atts[part.att].type # TYPE_IMAGE
                            /\ atts[part.att].extracted # "blank")

\* lines 301-331: the content of the user turn, piece by piece; with documents
\* the one text is "## Attached Documents: ... ## User Message: ..."
user_content_parts(atts) ==
    IF document_contexts(atts) # <<>>
    THEN document_contexts(atts) \o <<Part("text", 0)>> \o image_contents(atts)
    ELSE <<Part("text", 0)>> \o image_contents(atts)

history_entries(msgs) ==
    [i \in 1..Len(msgs) |->
        Entry(msgs[i].role, msgs[i].id, <<Part("text", 0)>>)]

\* lines 252-337: system message, history, user turn
formatted_messages(msgs, new, atts) ==
    <<Entry("system", 0, <<Part("instructions", 0)>>)>>
    \o history_entries(Last(msgs, AzureHistory))
    \o <<Entry("user", new, user_content_parts(atts))>>

\* lines 593-597: the history handed to start_chat
chat_history(msgs) ==
    LET recent == Last(msgs, GeminiHistory)
    IN  [i \in 1..Len(recent) |->
            Entry(IF recent[i].role = "user" THEN "user" ELSE "model",
                  recent[i].id, <<Part("text", 0)>>)]

\* lines 600-613: the uploaded files first, then the new message
content_parts(atts) ==
    [i \in 1..Len(atts) |-> Part("file", i)] \o <<Part("text", 0)>>

\* SpecAI: one message request from the flush of the user message to the
\* return of get_ai_response, for every model choice, every length of the
\* stored conversation and every list of attachment contexts
InitAI ==
    /\ attachments = <<>>
    /\ nextId = 1
    /\ clock = 1
    /\ blobs = <<>>
    /\ messages = <<>>
    /\ req = [p \in Procs |-> IdleReq]
    /\ resp = NoResp
    /\ settings = DefaultSettings
    /\ \E model \in ModelChoices, n \in 0..MaxStored, atts \in AttachmentContexts :
          call = [pc |-> "flush", model_choice |-> model, table |-> StoredMessages(n),
                  new |-> n + 1, attachments |-> atts, messages |-> <<>>,
                  i |-> 0, request |-> <<>>, error |-> "none",
                  result |-> "none"]
    /\ tmp_files = {}
    /\ gemini_files = {}
    /\ input = <<>>
    /\ output = <<>>

\* the user message is added and flushed, then the most recent messages of the
\* conversation are read, newest first, and reversed
FlushAndSelect ==
    /\ call.pc = "flush"
    /\ LET table == Append(call.table, [id |-> call.new, role |-> "user"])
       IN  call' = [call EXCEPT !.table = table,
                                !.messages = Last(table, RecentLimit),
                                !.pc = "route"]
    /\ UNCHANGED <<routeVars, tmp_files, gemini_files, fnVars>>

AzureRequest ==
    /\ call.pc = "route"
    /\ call.model_choice \in {GPT_4_1_NANO, GPT_4_1}
    /\ call' = [call EXCEPT
                  !.request = formatted_messages(call.messages, call.new, call.attachments),
                  !.pc = "azure_call"]
    /\ UNCHANGED <<routeVars, tmp_files, gemini_files, fnVars>>

AzureReturns ==
    /\ call.pc = "azure_call"
    /\ call' = [call EXCEPT !.pc = "returned", !.result = "reply"]
    /\ UNCHANGED <<routeVars, tmp_files, gemini_files, fnVars>>

\* what the provider raises: the rejection of a prompt longer than the
\* context window, or any other failure
ProviderErrors == {"context_length_exceeded", "other"}

\* lines 368-373: a context-length error is replaced, any other is re-raised
AzureRaises ==
    /\ call.pc = "azure_call"
    /\ \E error \in ProviderErrors :
          call' = [call EXCEPT !.pc = "raised", !.error = error,
                      !.result = IF error = "context_length_exceeded"
                                 THEN "Document content too large" ELSE error]
    /\ UNCHANGED <<routeVars, tmp_files, gemini_files, fnVars>>

GeminiHistoryBuilt ==
    /\ call.pc = "route"
    /\ call.model_choice \in {GEMINI_2_FLASH_EXP}
    /\ call' = [call EXCEPT !.request = chat_history(call.messages),
                            !.i = 1, !.pc = "gemini_files"]
    /\ UNCHANGED <<routeVars, tmp_files, gemini_files, fnVars>>

\* upload_to_gemini: NamedTemporaryFile(delete=False), the bytes written
GeminiTempFile ==
    /\ call.pc = "gemini_files"
    /\ call.i <= Len(call.attachments)
    /\ tmp_files' = tmp_files \cup {call.i}
    /\ call' = [call EXCEPT !.pc = "gemini_upload"]
    /\ UNCHANGED <<routeVars, gemini_files, fnVars>>

\* genai.upload_file returns; os.unlink(tmp_path)
GeminiUpload ==
    /\ call.pc = "gemini_upload"
    /\ gemini_files' = gemini_files \cup {call.i}
    /\ tmp_files' = tmp_files \ {call.i}
    /\ call' = [call EXCEPT !.i = call.i + 1, !.pc = "gemini_files"]
    /\ UNCHANGED <<routeVars, fnVars>>

\* genai.upload_file raises: logged and re-raised, up to the caller
GeminiUploadRaises ==
    /\ call.pc = "gemini_upload"
    /\ call' = [call EXCEPT !.pc = "raised", !.error = "other",
                            !.result = "other"]
    /\ UNCHANGED <<routeVars, tmp_files, gemini_files, fnVars>>

\* start_chat(history); send_message(content_parts) returns
GeminiSend ==
    /\ call.pc = "gemini_files"
    /\ call.i > Len(call.attachments)
    /\ call' = [call EXCEPT
                  !.request = call.request
                        \o <<Entry("user", call.new, content_parts(call.attachments))>>,
                  !.pc = "returned", !.result = "reply"]
    /\ UNCHANGED <<routeVars, tmp_files, gemini_files, fnVars>>

\* send_message raises: logged and re-raised as it is
GeminiSendRaises ==
    /\ call.pc = "gemini_files"
    /\ call.i > Len(call.attachments)
    /\ \E error \in ProviderErrors :
          call' = [call EXCEPT
                      !.request = call.request
                            \o <<Entry("user", call.new,
                                        content_parts(call.attachments))>>,
                      !.pc = "raised", !.error = error, !.result = error]
    /\ UNCHANGED <<routeVars, tmp_files, gemini_files, fnVars>>

NextAI ==
    \/ FlushAndSelect
    \/ AzureRequest
    \/ AzureReturns
    \/ AzureRaises
    \/ GeminiHistoryBuilt
    \/ GeminiTempFile
    \/ GeminiUpload
    \/ GeminiUploadRaises
    \/ GeminiSend
    \/ GeminiSendRaises

SpecAI == InitAI /\ [][NextAI]_vars

\* ------------------------------------------------ FileService._sanitize_filename
\* A filename is a sequence of characters. The characters that stand for the
\* classes the function tells apart: a letter, the dot, the space, the slash,
\* an accented letter (NFKD: the letter and a combining accent), the
\* horizontal ellipsis (NFKD: three dots) and a character without any ASCII
\* decomposition.
FilenameChars == {"a", ".", " ", "/", "e_acute", "ellipsis", "cjk"}

ShortFilenames == UNION {[1..n -> FilenameChars] : n \in 0..MaxName}

\* names around the length limit: a run of letters and a run of letters or of
\* ligatures (NFKD: two letters each), of these lengths, around a short middle;
\* the request schema admits filenames of up to 255 characters
RunLengths == {0, 150, 254, 300}
MaxMiddle == 2    \* characters between the two runs of a long filename

Run(c, n) == [i \in 1..n |-> c]

LongFilenames ==
    {Run("a", n) \o mid \o Run(c, m) :
        n \in RunLengths, m \in RunLengths, c \in {"a", "fi_ligature"},
        mid \in UNION {[1..k -> FilenameChars] : k \in 0..MaxMiddle}}

Filenames == ShortFilenames \cup LongFilenames

\* unicodedata.normalize('NFKD', c).encode('ascii', 'ignore').decode('ascii')
ascii_fold(c) ==
    CASE c = "e_acute" -> <<"e">>
      [] c = "ellipsis" -> <<".", ".", ".">>
      [] c = "fi_ligature" -> <<"f", "i">>
      [] c = "cjk" -> <<>>
      [] OTHER -> <<c>>

\* character by character, the decompositions joined in order (the name is
\* halved rather than walked, which joins them in the same order)
RECURSIVE normalize(_)
normalize(name) ==
    IF name = <<>> THEN <<>>
    ELSE IF Len(name) = 1 THEN ascii_fold(name[1])
    ELSE LET half == Len(name) \div 2
         IN  normalize(SubSeq(name, 1, half))
             \o normalize(SubSeq(name, half + 1, Len(name)))

\* str.replace(old, new) for a single character
replace_char(name, old, new) ==
    [i \in 1..Len(name) |-> IF name[i] = old THEN new ELSE name[i]]

\* the letters that occur: in the inputs, in a decomposition, in 'unnamed_file'
Alnum == {"a", "e", "u", "n", "m", "d", "f", "i", "l"}

\* the class [a-zA-Z0-9._-]
SafeChars == Alnum \cup {".", "_", "-"}

\* re.sub(r'[^a-zA-Z0-9._-]', '', name)
IsSafe(c) == c \in SafeChars
remove_unsafe(name) == SelectSeq(name, IsSafe)

unnamed_file == <<"u", "n", "n", "a", "m", "e", "d", "_", "f", "i", "l", "e">>

\* the length limit of line 330
MaxFilenameLength == 255

\* os.path.splitext on a name without separators: the extension starts at the
\* last dot, unless only dots precede it
splitext(name) ==
    LET dots == {i \in 1..Len(name) : name[i] = "."}
        last == IF dots = {} THEN 0 ELSE CHOOSE i \in dots : \A j \in dots : j <= i
    IN  IF last > 0 /\ \E i \in 1..(last - 1) : name[i] # "."
        THEN <<SubSeq(name, 1, last - 1), SubSeq(name, last, Len(name))>>
        ELSE <<name, <<>>>>

\* s[:n], for a negative n as well
slice_to(s, n) ==
    IF n >= 0 THEN SubSeq(s, 1, IF n < Len(s) THEN n ELSE Len(s))
    ELSE SubSeq(s, 1, IF Len(s) + n > 0 THEN Len(s) + n ELSE 0)

\* lines 330-334
limit_length(name) ==
    IF Len(name) > MaxFilenameLength
    THEN LET parts == splitext(name)
         IN  slice_to(parts[1], MaxFilenameLength - Len(parts[2])) \o parts[2]
    ELSE name

\* str.replace('..', ''): occurrences are found from the left, without overlap
RECURSIVE remove_dotdot(_)
remove_dotdot(name) ==
    LET found == {i \in 1..(Len(name) - 1) : name[i] = "." /\ name[i + 1] = "."}
    IN  IF found = {} THEN name
        ELSE LET k == CHOOSE i \in found : \A j \in found : i <= j
             IN  SubSeq(name, 1, k - 1) \o remove_dotdot(SubSeq(name, k + 2, Len(name)))

IsNotSeparator(c) == c \notin {"/", "\\"}
remove_separators(name) == SelectSeq(name, IsNotSeparator)

\* lines 341-343
unhide(name) ==
    IF name # <<>> /\ name[1] = "." THEN <<"_">> \o Tail(name) ELSE name

\* the steps in the order of lines 314-345
_sanitize_filename(filename) ==
    LET cleaned == remove_unsafe(replace_char(normalize(filename), " ", "_"))
        named == IF cleaned = <<>> THEN unnamed_file ELSE cleaned
    IN  unhide(remove_separators(remove_dotdot(limit_length(named))))

\* SpecSanitize: the function applied to a filename, and once more to its result
InitSanitize ==
    /\ attachments = <<>>
    /\ nextId = 1
    /\ clock = 1
    /\ blobs = <<>>
    /\ messages = <<>>
    /\ req = [p \in Procs |-> IdleReq]
    /\ resp = NoResp
    /\ settings = DefaultSettings
    /\ call = NoCall
    /\ tmp_files = {}
    /\ gemini_files = {}
    /\ input \in Filenames
    /\ output = <<>>

Sanitize ==
    /\ output = <<>>
    /\ output' = <<_sanitize_filename(input)>>
    /\ UNCHANGED <<routeVars, aiVars, input>>

SanitizeAgain ==
    /\ Len(output) = 1
    /\ output' = Append(output, _sanitize_filename(output[1]))
    /\ UNCHANGED <<routeVars, aiVars, input>>

NextSanitize == Sanitize \/ SanitizeAgain

SpecSanitize == InitSanitize /\ [][NextSanitize]_vars

\* ------------------------------------------------------- classification
\* content types handed to the classifier: declared by a client or detected
ClassifyContentTypes ==
    {"image/png", "IMAGE/PNG", "image/svg+xml", "application/pdf",
     "text/plain", "text/html", "Text/HTML", "text/x-python", "audio/mpeg",
     "application/zip", "video/mp4", "VIDEO/MP4", "application/octet-stream",
     "application/json"}

\* filenames handed to the classifier, as characters; none has a directory part
ClassifyFilenames ==
    {NoFilename,
     <<"c","l","i","p">>,
     <<"a",".","p","y">>,
     <<"a",".","P","Y">>,
     <<"a",".","t","x","t">>,
     <<".","p","y">>,
     <<"a",".">>,
     <<"a",".","p","y",".","m","p","4">>,
     <<"a",".","m","p","4",".","p","y">>,
     <<"a",".","m","p","4">>,
     <<"a",".","r">>,
     <<"a",".","j","s","o","n">>}

\* SpecClassify: the classifier applied to a content type and a filename, twice
InitClassify ==
    /\ attachments = <<>>
    /\ nextId = 1
    /\ clock = 1
    /\ blobs = <<>>
    /\ messages = <<>>
    /\ req = [p \in Procs |-> IdleReq]
    /\ resp = NoResp
    /\ settings = DefaultSettings
    /\ call = NoCall
    /\ tmp_files = {}
    /\ gemini_files = {}
    /\ input \in [content_type : ClassifyContentTypes,
                  filename : ClassifyFilenames]
    /\ output = <<>>

Classify ==
    /\ output = <<>>
    /\ output' = <<classify_attachment_type(input.content_type, input.filename)>>
    /\ UNCHANGED <<routeVars, aiVars, input>>

ClassifyAgain ==
    /\ Len(output) = 1
    /\ output' = Append(output, classify_attachment_type(input.content_type,
                                                         input.filename))
    /\ UNCHANGED <<routeVars, aiVars, input>>

NextClassify == Classify \/ ClassifyAgain

SpecClassify == InitClassify /\ [][NextClassify]_vars

\* ------------------------------------------------------------ token limits
\* "<|endoftext|>", a special token of the encoding, as characters
SpecialToken == <<"<","|","e","n","d","o","f","t","e","x","t","|",">">>

\* "\n\n[... content truncated due to length ...]"
TruncationMarker ==
    <<"\n","\n","[",".",".","."," ","c","o","n","t","e","n","t"," ",
      "t","r","u","n","c","a","t","e","d"," ","d","u","e"," ","t","o",
      " ","l","e","n","g","t","h"," ",".",".",".","]">>

Letters ==
    {"D","a","c","d","e","f","g","h","l","m","n","o","r","s","t","u","w","x"}

\* pre-tokenisation of the encoding: a run of letters together with the one
\* space before it is a token, every other character is a token of its own
StartsToken(text, i) ==
    \/ i = 1
    \/ text[i] \notin Letters
    \/ ~(text[i - 1] \in Letters \/ text[i - 1] = " ")

TokenStarts(text) == {i \in DOMAIN text : StartsToken(text, i)}

\* the tokens of a text, each as the characters it stands for
tokenize(text) ==
    LET starts == TokenStarts(text)
        count == Cardinality(starts)
        rank == [i \in starts |-> Cardinality({j \in starts : j <= i})]
        start(k) == CHOOSE i \in starts : rank[i] = k
        end(k) == IF k = count THEN Len(text) ELSE start(k + 1) - 1
    IN  [k \in 1..count |-> SubSeq(text, start(k), end(k))]

Spells(text, word) ==
    \E i \in 1..(Len(text) - Len(word) + 1) :
        SubSeq(text, i, i + Len(word) - 1) = word

\* encoding.encode(text) raises ValueError on a text that spells a special
\* token (disallowed_special defaults to "all")
EncodeRaises(text) == Spells(text, SpecialToken)

encode(text) == tokenize(text)

\* encoding.decode(tokens)
RECURSIVE decode(_)
decode(tokens) ==
    IF tokens = <<>> THEN <<>> ELSE Head(tokens) \o decode(Tail(tokens))

\* s[:n]; a negative n counts from the end
Prefix(s, n) ==
    IF n >= 0 THEN SubSeq(s, 1, IF n < Len(s) THEN n ELSE Len(s))
    ELSE SubSeq(s, 1, Len(s) + n)

\* tokens kept back for the truncation message
TruncationReserve == 20

truncate_to_token_limit(text, max_tokens) ==
    IF ~EncodeRaises(text)
    THEN LET tokens == encode(text)
         IN  IF Len(tokens) <= max_tokens THEN text
             ELSE decode(Prefix(tokens, max_tokens - TruncationReserve))
                    \o TruncationMarker
    ELSE LET char_limit == max_tokens * 4
         IN  IF Len(text) > char_limit
             THEN Prefix(text, char_limit) \o TruncationMarker
             ELSE text

\* token budget of the combined document context (8000 in the source)
MAX_DOCUMENT_TOKENS == 60

\* f"### Document: {filename}\n{extracted_text}"
LabelledText(filename, extracted_text) ==
    <<"#","#","#"," ","D","o","c","u","m","e","n","t",":"," ">>
        \o filename \o <<"\n">> \o extracted_text

\* the loop over document_contexts: every context cut to an even share
truncated_contexts(contexts) ==
    LET tokens_per_doc == MAX_DOCUMENT_TOKENS \div Len(contexts)
    IN  [i \in DOMAIN contexts |->
            truncate_to_token_limit(contexts[i], tokens_per_doc)]

Repeat(unit, n) ==
    [i \in 1..(n * Len(unit)) |-> unit[((i - 1) % Len(unit)) + 1]]

\* extracted texts: short, long, of words, and spelling a special token
ExtractedTexts ==
    {Repeat(<<"cjk">>, 10),
     Repeat(<<"cjk">>, 70),
     Repeat(<<" ","w","o","r","d","s">>, 25),
     SpecialToken \o Repeat(<<" ","w","o","r","d","s">>, 15)}

MaxDocs == 4
TokenLimits == {20, 21, 60}

\* SpecTokens: one text cut to a limit, then a list of labelled texts cut to
\* their shares of the budget
InitTokens ==
    /\ attachments = <<>>
    /\ nextId = 1
    /\ clock = 1
    /\ blobs = <<>>
    /\ messages = <<>>
    /\ req = [p \in Procs |-> IdleReq]
    /\ resp = NoResp
    /\ settings = DefaultSettings
    /\ call = NoCall
    /\ tmp_files = {}
    /\ gemini_files = {}
    /\ input \in [texts : UNION {[1..k -> ExtractedTexts] : k \in 1..MaxDocs},
                  max_tokens : TokenLimits]
    /\ output = <<>>

Truncate ==
    /\ output = <<>>
    /\ output' = <<truncate_to_token_limit(input.texts[1], input.max_tokens)>>
    /\ UNCHANGED <<routeVars, aiVars, input>>

TruncateContexts ==
    /\ Len(output) = 1
    /\ output' = Append(output, truncated_contexts(
                    [i \in DOMAIN input.texts |->
                        LabelledText(request_filename, input.texts[i])]))
    /\ UNCHANGED <<routeVars, aiVars, input>>

NextTokens == Truncate \/ TruncateContexts

SpecTokens == InitTokens /\ [][NextTokens]_vars

\* ------------------------------------------------------ document extraction
\* a filename argument that is None instead of a string
NoneFilename == <<"None">>

\* an absent content type (None, or the empty string, which is falsy alike)
NoContentType == ""

DOCX_TYPE == "application/vnd.openxmlformats-officedocument.wordprocessingml.document"
XLSX_TYPE == "application/vnd.openxmlformats-officedocument.spreadsheetml.sheet"

\* mimetypes.guess_type(filename)[0]: by the extension, None when unknown
guess_type(filename) ==
    LET ext == lower_name(suffix(filename))
    IN  CASE ext = <<".","p","d","f">> -> "application/pdf"
          [] ext = <<".","d","o","c","x">> -> DOCX_TYPE
          [] ext = <<".","x","l","s","x">> -> XLSX_TYPE
          [] ext = <<".","c","s","v">> -> "text/csv"
          [] ext = <<".","j","s","o","n">> -> "application/json"
          [] ext = <<".","t","x","t">> -> "text/plain"
          [] ext = <<".","p","y">> -> "text/x-python"
          [] OTHER -> NoContentType

\* the if/elif chain of extract_text: the extractor the call is routed to
route_to_extractor(file_ext, content_type) ==
    IF file_ext = <<".","p","d","f">> \/ content_type = "application/pdf"
    THEN "_extract_pdf"
    ELSE IF \/ file_ext \in {<<".","d","o","c","x">>, <<".","d","o","c">>}
            \/ content_type \in {DOCX_TYPE, "application/msword"}
    THEN "_extract_docx"
    ELSE IF \/ file_ext \in {<<".","x","l","s","x">>, <<".","x","l","s">>}
            \/ content_type \in {XLSX_TYPE, "application/vnd.ms-excel"}
    THEN "_extract_excel"
    ELSE IF file_ext = <<".","c","s","v">> \/ content_type = "text/csv"
    THEN "_extract_csv"
    ELSE IF file_ext = <<".","j","s","o","n">> \/ content_type = "application/json"
    THEN "_extract_json"
    ELSE IF \/ file_ext \in {<<".","t","x","t">>, <<".","m","d">>, <<".","l","o","g">>}
            \/ (content_type # NoContentType /\ startswith(content_type, "text/"))
    THEN "_extract_text_file"
    ELSE IF file_ext \in {<<".","p","y">>, <<".","j","s">>, <<".","j","a","v","a">>,
                          <<".","c","p","p">>, <<".","c">>, <<".","h","t","m","l">>,
                          <<".","c","s","s">>, <<".","x","m","l">>}
    THEN "_extract_text_file"
    ELSE "unsupported"

\* one extractor on the bytes: the text it reads, or its own bracketed
\* placeholder when the parsing library raises; decoding plain text never fails
run_extractor(extractor, parses) ==
    IF extractor = "_extract_text_file" \/ parses
    THEN [kind |-> "text", by |-> extractor]
    ELSE [kind |-> "placeholder", by |-> extractor]

\* extract_text without its outer try/except
extract_text_Unguarded(filename, content_type, parses) ==
    IF filename = NoneFilename
    THEN [kind |-> "raised", by |-> "TypeError"]
    ELSE LET file_ext == lower_name(suffix(filename))
             ct == IF content_type = NoContentType THEN guess_type(filename)
                   ELSE content_type
             extractor == route_to_extractor(file_ext, ct)
         IN  IF extractor = "unsupported"
             THEN [kind |-> "placeholder", by |-> "unsupported"]
             ELSE run_extractor(extractor, parses)

\* DocumentExtractor.extract_text; parses: the parsing library accepts the bytes
extract_text(filename, content_type, parses) ==
    IF filename = NoneFilename
    THEN \* Path(None) raises TypeError, caught by the outer except
         [kind |-> "placeholder", by |-> "extract_text"]
    ELSE LET file_ext == lower_name(suffix(filename))
             ct == IF content_type = NoContentType THEN guess_type(filename)
                   ELSE content_type
             extractor == route_to_extractor(file_ext, ct)
         IN  IF extractor = "unsupported"
             THEN [kind |-> "placeholder", by |-> "unsupported"]
             ELSE run_extractor(extractor, parses)

ExtractFilenames ==
    {NoneFilename,
     <<"a">>,
     <<"a",".","p","d","f">>,
     <<"a",".","P","D","F">>,
     <<"a",".","d","o","c","x">>,
     <<"a",".","x","l","s","x">>,
     <<"a",".","c","s","v">>,
     <<"a",".","j","s","o","n">>,
     <<"a",".","t","x","t">>,
     <<"a",".","p","y">>,
     <<"a",".","m","p","4">>}

ExtractContentTypes ==
    {NoContentType, "application/pdf", DOCX_TYPE, XLSX_TYPE, "text/csv",
     "application/json", "text/plain", "text/html", "application/octet-stream"}

\* SpecExtract: extract_text on one attachment's bytes, filename and type
InitExtract ==
    /\ attachments = <<>>
    /\ nextId = 1
    /\ clock = 1
    /\ blobs = <<>>
    /\ messages = <<>>
    /\ req = [p \in Procs |-> IdleReq]
    /\ resp = NoResp
    /\ settings = DefaultSettings
    /\ call = NoCall
    /\ tmp_files = {}
    /\ gemini_files = {}
    /\ input \in [filename : ExtractFilenames,
                  content_type : ExtractContentTypes,
                  parses : BOOLEAN]
    /\ output = <<>>

Extract ==
    /\ output = <<>>
    /\ output' = <<extract_text(input.filename, input.content_type, input.parses)>>
    /\ UNCHANGED <<routeVars, aiVars, input>>

NextExtract == Extract

SpecExtract == InitExtract /\ [][NextExtract]_vars

\* --------------------------------------------------------------- properties
\* no request is in flight
Quiescent == \A q \in Procs : req[q].pc = "idle"

\* C1: in every reachable state, whatever the interleaving of initiate, upload
\* and delete requests, no conversation holds two UPLOADED attachments with the
\* same content hash.
C1_NoTwoUploadedShareHash ==
    \A a, b \in Rows :
        (/\ a # b
         /\ attachments[a].conversation_id = attachments[b].conversation_id
         /\ attachments[a].status = UPLOADED
         /\ attachments[b].status = UPLOADED)
        => attachments[a].file_hash # attachments[b].file_hash

\* C2: when the AI call fails during message creation, the message history
\* stored after the failed call contains the new user message.
C2_UserMessageSurvivesFailure ==
    [][\A p \in Procs :
          (req[p].pc = "msg_fail" /\ req'[p].pc = "idle")
          => /\ Len(messages') = Len(messages) + 1
             /\ messages'[Len(messages')] = req[p].flushed[1]]_vars

\* C3: once no request is in flight, the bytes stored at the path of every
\* UPLOADED attachment have the recorded hash and the recorded length.
C3_StoredBytesMatchRecord ==
    Quiescent =>
        \A a \in Rows :
            attachments[a].status = UPLOADED
            => /\ attachments[a].storage_path \in DOMAIN blobs
               /\ calculate_file_hash(blobs[attachments[a].storage_path])
                      = attachments[a].file_hash
               /\ Len(blobs[attachments[a].storage_path]) = attachments[a].file_size

\* C4 as stated: after an upload whose byte length differs from the declared
\* size, the row it named is FAILED or removed.
C4_MismatchFailsOrRemovesRow ==
    (resp.op = "upload" /\ resp.result = "SizeMismatch")
    => (resp.att \notin Rows \/ attachments[resp.att].status = FAILED)

\* C4, amended: an upload whose byte length differs from the declared size is
\* rejected before anything is written: no row and no stored bytes change, the
\* row it named stays PENDING, and only a body of the declared length goes on
\* to the later steps of the upload.
C4_MismatchLeavesRowPending ==
    [][/\ (resp'.op = "upload" /\ resp'.result = "SizeMismatch")
          => /\ attachments' = attachments
             /\ blobs' = blobs
             /\ resp'.att \in Rows
             /\ attachments'[resp'.att].status = PENDING
             /\ attachments'[resp'.att].status # UPLOADED
       /\ \A p \in Procs :
            (req[p].pc = "idle" /\ req'[p].op = "upload")
            => Len(req'[p].content) = attachments[req'[p].att].file_size]_vars

C4_Witness ==
    /\ resp.op = "upload"
    /\ resp.result = "SizeMismatch"
    /\ resp.att \in Rows
    /\ attachments[resp.att].status = PENDING

\* UPLOADED rows of a conversation, other than self, whose stored bytes are content
StoredAs(conv, content, self) ==
    {b \in Rows \ {self} :
        /\ attachments[b].conversation_id = conv
        /\ attachments[b].status = UPLOADED
        /\ attachments[b].storage_path \in DOMAIN blobs
        /\ blobs[attachments[b].storage_path] = content}

\* C5: when content already stored for an UPLOADED attachment of the
\* conversation is uploaded again, after the first upload has ended, the second
\* upload ends as Conflict, its PENDING row is removed, every other row and all
\* stored bytes are unchanged, and the conversation keeps exactly one UPLOADED
\* attachment with that hash.
C5_SecondUploadConflicts ==
    [][\A p \in Procs :
          /\ (req[p].pc = "up_dup" /\ req'[p].pc # "up_dup"
                /\ StoredAs(req[p].conv, req[p].content, req[p].att) # {})
             => req'[p].pc = "up_conflict"
          /\ (req[p].pc = "up_conflict" /\ req'[p].pc # "up_conflict")
             => /\ resp' = Response("upload", "Conflict", req[p].att)
                /\ req[p].att \in Rows
                /\ attachments[req[p].att].status = PENDING
                /\ DOMAIN attachments' = Rows \ {req[p].att}
                /\ \A b \in Rows \ {req[p].att} : attachments'[b] = attachments[b]
                /\ blobs' = blobs
                /\ Cardinality({b \in DOMAIN attachments' :
                        /\ attachments'[b].conversation_id = req[p].conv
                        /\ attachments'[b].status = UPLOADED
                        /\ attachments'[b].file_hash
                               = calculate_file_hash(req[p].content)}) = 1]_vars

C5_Witness ==
    /\ resp.op = "upload"
    /\ resp.result = "Conflict"
    /\ resp.att \notin Rows
    /\ \E b \in Rows : attachments[b].status = UPLOADED

\* the status changes the lifecycle allows
LifecycleStep(s, t) ==
    \/ s = t
    \/ <<s, t>> \in {<<PENDING, UPLOADED>>, <<PENDING, FAILED>>,
                     <<PENDING, DELETED>>, <<UPLOADED, DELETED>>}

\* C6: the status of an attachment changes only along PENDING->UPLOADED,
\* PENDING->FAILED, PENDING->DELETED and UPLOADED->DELETED.
C6_OnlyLifecycleSteps ==
    [][\A a \in Rows :
          a \in DOMAIN attachments'
          => LifecycleStep(attachments[a].status, attachments'[a].status)]_vars

C8_DeletedNeverListedNorResolved ==
    [][/\ (resp'.op = "list" /\ resp'.result = "OK" /\ ~resp'.include_deleted)
          => \A a \in resp'.out : a \in Rows /\ attachments[a].status # DELETED
       /\ \A p \in Procs :
            (req[p].pc = "idle" /\ req'[p].op = "message")
            => \A a \in req'[p].out :
                  /\ a \in Rows
                  /\ attachments[a].status = UPLOADED
                  /\ attachments[a].conversation_id = req'[p].conv]_vars

C8_Witness ==
    /\ resp.op = "list"
    /\ resp.result = "OK"
    /\ ~resp.include_deleted
    /\ \E a \in resp.out, d \in Rows \ resp.out :
          /\ attachments[d].status = DELETED
          /\ attachments[d].conversation_id = attachments[a].conversation_id

\* C9: an upload whose store call, or a later step, raises ends with its row
\* present and FAILED, every other row and the stored bytes as they were, and
\* the generic upload failure as its response.
C9_FailureMarksRowFailed ==
    [][\A p \in Procs :
          (req[p].pc = "up_fail" /\ req'[p].pc # "up_fail")
          => /\ req[p].att \in Rows
             /\ DOMAIN attachments' = Rows
             /\ attachments'[req[p].att].status = FAILED
             /\ \A b \in Rows \ {req[p].att} : attachments'[b] = attachments[b]
             /\ blobs' = blobs
             /\ resp' = Response("upload", "UploadFailed", req[p].att)]_vars

C9_Witness ==
    /\ resp.op = "upload"
    /\ resp.result = "UploadFailed"
    /\ resp.att \in Rows
    /\ attachments[resp.att].status = FAILED

\* C10: an upload goes past the lookup only with a row that has the requested
\* identifier, lies in the requested conversation, whose conversation is owned
\* by the caller and whose status is PENDING; an upload that ends as NotFound
\* changes no row and no stored bytes.
C10_UploadLocatesOnlyOwnPending ==
    [][/\ (resp'.op = "upload" /\ resp'.result = "NotFound")
          => /\ attachments' = attachments
             /\ blobs' = blobs
       /\ (resp'.op = "upload" /\ resp'.result = "SizeMismatch")
          => /\ resp'.att \in Rows
             /\ attachments[resp'.att].status = PENDING
       /\ \A p \in Procs :
            (req[p].pc = "idle" /\ req'[p].op = "upload")
            => /\ req'[p].att \in Rows
               /\ attachments[req'[p].att].uuid = req'[p].uuid
               /\ attachments[req'[p].att].conversation_id = req'[p].conv
               /\ owner_id(req'[p].conv) = req'[p].user
               /\ attachments[req'[p].att].status = PENDING]_vars

C10_Witness ==
    /\ resp.op = "upload"
    /\ resp.result = "NotFound"
    /\ resp.att \in Rows
    /\ attachments[resp.att].status \in {UPLOADED, FAILED, DELETED}

\* hashes of the bodies an upload of the declared size can carry
ContentHashes(size) == {calculate_file_hash(c) : c \in {x \in Contents : Len(x) = size}}

\* C11: in every reachable state a PENDING attachment carries the sentinel
\* hash "pending", and an UPLOADED attachment carries the hash of an uploaded
\* body of its size, never the sentinel.
C11_SentinelHashOnlyWhilePending ==
    \A a \in Rows :
        /\ attachments[a].status = PENDING => attachments[a].file_hash = "pending"
        /\ attachments[a].status = UPLOADED
           => /\ attachments[a].file_hash # "pending"
              /\ attachments[a].file_hash \in ContentHashes(attachments[a].file_size)

C11_Witness ==
    \E a, b \in Rows :
        /\ attachments[a].status = PENDING
        /\ attachments[a].file_hash = "pending"
        /\ attachments[b].status = UPLOADED
        /\ attachments[b].file_hash = calculate_file_hash(blobs[attachments[b].storage_path])

\* C12: when initiate requests of a conversation do not overlap, the number of
\* its PENDING, UPLOADED and FAILED attachments never exceeds the configured
\* maximum.
C12_CountWithinLimit ==
    \A conv \in Convs : NonDeletedCount(conv) <= MaxAttachmentsPerConversation

\* C16: a batch-activity request of the conversation's owner succeeds whatever
\* its ids denote, reports as requested the number of its entries and as
\* updated the number of its ids that denote an UPLOADED attachment of the
\* conversation, and never reports more updated than requested.
C16_BatchCountsMatchedIds ==
    [][\A user \in Users, conv \in Convs, updates \in BatchUpdates :
          (BatchActivity(1, user, conv, updates) /\ owner_id(conv) = user)
          => /\ resp'.result = "OK"
             /\ resp'.requested = Len(updates)
             /\ resp'.updated =
                  Cardinality({u \in {updates[i].uuid : i \in DOMAIN updates} :
                      \E a \in Rows : /\ attachments[a].uuid = u
                                      /\ attachments[a].conversation_id = conv
                                      /\ attachments[a].status = UPLOADED})
             /\ resp'.updated <= resp'.requested]_vars

C19_DetectedTypeReplacesDeclared ==
    [][\A p \in Procs :
          LET r == req[p]
              detected == detect_content_type(r.content)
          IN  /\ (r.pc = "up_dup" /\ req'[p].pc # "up_dup")
                 => req'[p].pc =
                        IF Duplicates(r.conv, calculate_file_hash(r.content), r.att) # {}
                        THEN "up_conflict" ELSE "up_store"
              /\ (r.pc = "up_commit" /\ r.att \in Rows)
                 => (req'[p].pc # "up_commit" => req'[p].pc = "up_respond")
              /\ (r.pc = "up_respond" /\ resp'.op = "upload" /\ resp'.result = "OK")
                 => /\ attachments'[r.att].status = UPLOADED
                    /\ attachments'[r.att].content_type = detected
                    /\ attachments'[r.att].attachment_type =
                            classify_attachment_type(detected, request_filename)]_vars

\* an upload declared text/plain whose bytes are detected as a type outside the
\* allow-list has answered OK
C19_Witness ==
    /\ resp.op = "upload"
    /\ resp.result = "OK"
    /\ resp.att \in Rows
    /\ attachments[resp.att].content_type \notin allowed_content_types
    /\ attachments[resp.att].attachment_type = TYPE_IMAGE
    /\ attachments[resp.att].storage_path \in DOMAIN blobs
    /\ detect_content_type(blobs[attachments[resp.att].storage_path])
            = attachments[resp.att].content_type

\* C18: an initiate request that is not rejected creates exactly one row, a
\* PENDING one, and changes no other; its answer names that row and carries
\* the method "direct" together with a URL for the row's path and an expiry
\* time when the backend signs URLs and the signing did not raise, and the
\* method "api" with neither URL nor expiry time otherwise.
C18_DirectExactlyWhenUrlGenerated ==
    [][\A p \in Procs :
          (req[p].pc = "init_commit" /\ req'[p].pc # "init_commit")
          => /\ resp'.op = "initiate"
             /\ resp'.result = "OK"
             /\ resp'.att \notin Rows
             /\ DOMAIN attachments' = Rows \cup {resp'.att}
             /\ \A a \in Rows : attachments'[a] = attachments[a]
             /\ attachments'[resp'.att].status = PENDING
             /\ attachments'[resp'.att].conversation_id = req[p].conv
             /\ resp'.upload_method \in {"direct", "api"}
             /\ resp'.upload_method = "direct"
                <=> /\ storage_backend = "AzureFileStorage"
                    /\ resp'.upload_url =
                         generate_presigned_url(attachments'[resp'.att].storage_path)
                    /\ resp'.expires_at > clock
             /\ resp'.upload_method = "api"
                <=> (resp'.upload_url = <<>> /\ resp'.expires_at = 0)]_vars

\* the signing raised: the answer falls back to "api" and the row is there
C18_Witness ==
    /\ resp.op = "initiate"
    /\ resp.result = "OK"
    /\ resp.upload_method = "api"
    /\ resp.upload_url = <<>>
    /\ resp.att \in Rows
    /\ attachments[resp.att].status = PENDING

\* C20: sanitising a sanitised filename changes nothing.
C20_SanitizeIdempotent ==
    Len(output) = 2 => output[2] = output[1]

\* C13: when the AI call has returned or raised, no temporary file written for
\* it is left and the provider holds no file uploaded for it.
C13_NothingLeftAfterCall ==
    call.pc \in {"returned", "raised"} => (tmp_files = {} /\ gemini_files = {})

\* place of a piece of the user turn in the order text, images, documents
PartRank(part) ==
    CASE part.type = "text" -> 1
      [] part.type \in {"image_url", "file"} -> 2
      [] OTHER -> 3

\* C14: the request that was answered starts with the one system message, goes
\* on with stored messages in chronological order, and ends with the one user
\* turn for the new message, whose pieces are the text, then the images, then
\* the document context.
C14_SystemHistoryThenOneUserTurn ==
    call.pc = "returned"
    => LET r == call.request
           n == Len(r)
       IN  /\ n >= 2
           /\ r[1].role = "system"
           /\ \A i \in 2..n : r[i].role # "system"
           /\ r[n].role = "user"
           /\ r[n].id = call.new
           /\ \A i \in 2..(n - 1) : r[i].id # call.new
           /\ \A i, j \in 2..(n - 1) : i < j => r[i].id < r[j].id
           /\ r[n].parts[1].type = "text"
           /\ \A i, j \in DOMAIN r[n].parts :
                  i < j => PartRank(r[n].parts[i]) <= PartRank(r[n].parts[j])

\* the history of the answered request: what lies between the system message,
\* if there is one, and the final user turn
SentHistory ==
    LET r == call.request
        first == IF r[1].role = "system" THEN 2 ELSE 1
    IN  [i \in 1..(Len(r) - first) |-> [id |-> r[first + i - 1].id]]

\* the most recent n of the messages, oldest first, by their identifiers
MostRecent(msgs, n) == [i \in 1..Len(Last(msgs, n)) |-> [id |-> Last(msgs, n)[i].id]]

\* C15: the history of the answered request is exactly the most recent N
\* messages of the conversation, oldest first, N being 10 when document content
\* is embedded in the request and 20 when none is; the conversation's messages
\* are taken either without or with the new message itself.
C15_HistoryWindowByDocuments ==
    call.pc = "returned"
    => LET embedded == /\ call.model_choice # GEMINI_2_FLASH_EXP
                       /\ document_contexts(call.attachments) # <<>>
           N == IF embedded THEN 10 ELSE 20
       IN  \/ SentHistory = MostRecent(StoredMessages(call.new - 1), N)
           \/ SentHistory = MostRecent(call.table, N)

\* C21: the sanitised name is never empty, whatever the filename.
C21_SanitizedNeverEmpty ==
    Len(output) >= 1 => output[1] # <<>>

\* C22: the sanitised name is made of characters of [a-zA-Z0-9._-] only, holds
\* no path separator and no two dots in a row, does not start with a dot and is
\* at most 255 characters long.
C22_SanitizedNameIsSafe ==
    Len(output) >= 1
    => LET name == output[1]
       IN  /\ \A i \in DOMAIN name : name[i] \in SafeChars
           /\ \A i \in DOMAIN name : name[i] \notin {"/", "\\"}
           /\ \A i \in 1..(Len(name) - 1) : ~(name[i] = "." /\ name[i + 1] = ".")
           /\ name # <<>> => name[1] # "."
           /\ Len(name) <= 255

\* the tag of the first rule, in the stated order, that the content type and
\* the filename match
FirstMatchingRuleTag(content_type, filename) ==
    LET ct == lower(content_type)
        ext == lower_name(suffix(filename))
    IN  CASE startswith(ct, "image/") -> TYPE_IMAGE
          [] ct \in document_types -> TYPE_DOCUMENT
          [] ext \in code_extensions \/ startswith(ct, "text/") -> TYPE_DOCUMENT
          [] OTHER -> TYPE_OTHER

\* C23: for every content type and every filename, an absent filename included,
\* the classifier returns the tag of the first matching rule in the order
\* image, document type, code extension or text type, audio, archive, video,
\* default.
C23_TagOfFirstMatchingRule ==
    Len(output) >= 1
    => output[1] = FirstMatchingRuleTag(input.content_type, input.filename)

\* C24: an attachment whose content type is video/* is classified OTHER,
\* whatever its filename.
C24_VideoIsOther ==
    (Len(output) >= 1 /\ startswith(lower(input.content_type), "video/"))
    => output[1] = TYPE_OTHER

\* the number of tokens of a text, a special token counted as ordinary text
token_count(text) == Len(tokenize(text))

\* C25: for every text and every limit N >= 20 the truncated text has at most N
\* tokens, and a text of at most N tokens is returned unchanged.
C25_TruncationRespectsLimit ==
    (Len(output) >= 1 /\ input.max_tokens >= 20)
    => /\ token_count(output[1]) <= input.max_tokens
       /\ token_count(input.texts[1]) <= input.max_tokens
            => output[1] = input.texts[1]

\* C26: with k >= 1 extracted documents every labelled text is cut to at most
\* floor(budget / k) tokens, so the documents together stay within the budget.
C26_EachWithinEvenShare ==
    Len(output) >= 2
    => LET k == Len(input.texts)
       IN  \A i \in 1..k :
              token_count(output[2][i]) <= MAX_DOCUMENT_TOKENS \div k

ExtensionFormat(file_ext) ==
    CASE file_ext = <<".","p","d","f">> -> "_extract_pdf"
      [] file_ext \in {<<".","d","o","c","x">>, <<".","d","o","c">>} -> "_extract_docx"
      [] file_ext \in {<<".","x","l","s","x">>, <<".","x","l","s">>} -> "_extract_excel"
      [] file_ext = <<".","c","s","v">> -> "_extract_csv"
      [] file_ext = <<".","j","s","o","n">> -> "_extract_json"
      [] file_ext \in {<<".","t","x","t">>, <<".","m","d">>, <<".","l","o","g">>,
                       <<".","p","y">>, <<".","j","s">>, <<".","j","a","v","a">>,
                       <<".","c","p","p">>, <<".","c">>, <<".","h","t","m","l">>,
                       <<".","c","s","s">>, <<".","x","m","l">>} -> "_extract_text_file"
      [] OTHER -> "none"

\* the format a content type stands for, "none" when it is not a supported one
ContentTypeFormat(content_type) ==
    CASE content_type = "application/pdf" -> "_extract_pdf"
      [] content_type \in {DOCX_TYPE, "application/msword"} -> "_extract_docx"
      [] content_type \in {XLSX_TYPE, "application/vnd.ms-excel"} -> "_extract_excel"
      [] content_type = "text/csv" -> "_extract_csv"
      [] content_type = "application/json" -> "_extract_json"
      [] startswith(content_type, "text/") -> "_extract_text_file"
      [] OTHER -> "none"

\* C28: when the extension names one supported format and the content type a
\* different one, the extractor of the extension's format is the one used.
C28_ExtensionBeforeContentType ==
    (/\ Len(output) >= 1
     /\ input.filename # NoneFilename
     /\ ExtensionFormat(lower_name(suffix(input.filename))) # "none"
     /\ ContentTypeFormat(input.content_type) # "none"
     /\ ExtensionFormat(lower_name(suffix(input.filename)))
            # ContentTypeFormat(input.content_type))
    => output[1].by = ExtensionFormat(lower_name(suffix(input.filename)))

\* the request of the call has been built and handed to the provider
RequestSent ==
    /\ call.pc \in {"azure_call", "returned", "raised"}
    /\ call.model_choice = GEMINI_2_FLASH_EXP => call.i > Len(call.attachments)

\* the parts of the user turn that closes the request
UserTurnParts == call.request[Len(call.request)].parts

PartsOf(parts) == {parts[j] : j \in DOMAIN parts}

\* images inline and nothing else of them; the others extracted, never inline
ImagesInlineOthersExtracted ==
    \A i \in DOMAIN call.attachments :
        IF call.attachments[i].type = TYPE_IMAGE
        THEN /\ Part("image_url", i) \in PartsOf(UserTurnParts)
             /\ Part("document", i) \notin PartsOf(UserTurnParts)
        ELSE /\ Part("image_url", i) \notin PartsOf(UserTurnParts)
             /\ call.attachments[i].extracted # "blank"
                    => Part("document", i) \in PartsOf(UserTurnParts)

\* C29 as stated: in every request built from resolved attachments, for every
\* model choice, each IMAGE attachment is an inline image part and is not
\* extracted, and each other attachment is extracted and is not an inline image.
C29_ImagesInlineForEveryModel ==
    RequestSent => ImagesInlineOthersExtracted

\* C29, amended: that routing holds for the chat-completion model choices; for
\* the generative model choice every attachment, image or not, is an uploaded
\* file part and none is inline or extracted.
C29_ImagesInlineForChatCompletion ==
    RequestSent
    => IF call.model_choice \in {GPT_4_1_NANO, GPT_4_1}
       THEN ImagesInlineOthersExtracted
       ELSE \A i \in DOMAIN call.attachments :
               /\ Part("file", i) \in PartsOf(UserTurnParts)
               /\ Part("image_url", i) \notin PartsOf(UserTurnParts)
               /\ Part("document", i) \notin PartsOf(UserTurnParts)

\* a chat-completion request carrying an image and an extracted document
C29_Witness ==
    /\ RequestSent
    /\ call.model_choice = GPT_4_1
    /\ \E i, j \in DOMAIN call.attachments :
          /\ call.attachments[i].type = TYPE_IMAGE
          /\ call.attachments[j].type = TYPE_DOCUMENT
          /\ Part("image_url", i) \in PartsOf(UserTurnParts)
          /\ Part("document", j) \in PartsOf(UserTurnParts)

\* C30: a provider rejection for a prompt longer than the context window is
\* surfaced as the "documents too large" error, not as the provider's own, and
\* every other provider failure is propagated unchanged.
C30_ContextWindowErrorTranslated ==
    call.pc = "raised"
    => IF call.error = "context_length_exceeded"
       THEN call.result = "Document content too large"
       ELSE call.result = call.error

\* C31: once a delete has committed status DELETED the row does not become
\* UPLOADED or FAILED afterwards, and an upload overlapping a permanent delete
\* stores no bytes for an attachment whose row is gone.
C31_DeleteIsFinalUnderRace ==
    [][/\ \A a \in Rows :
            (attachments[a].status = DELETED /\ a \in DOMAIN attachments')
                => attachments'[a].status \notin {UPLOADED, FAILED}
       /\ \A p \in Procs :
            (req[p].pc = "up_store" /\ req'[p].pc = "up_commit")
                => req[p].att \in Rows]_vars

C33_ConflictIffUploadedTwin ==
    [][/\ \A p \in Procs :
            (req[p].pc = "up_dup" /\ req'[p].pc # "up_dup")
            => (req'[p].pc = "up_conflict"
                <=> \E b \in Rows \ {req[p].att} :
                       /\ attachments[b].conversation_id = req[p].conv
                       /\ attachments[b].status = UPLOADED
                       /\ attachments[b].file_hash
                              = calculate_file_hash(req[p].content))
       /\ (resp'.op = "upload" /\ resp'.result = "Conflict")
            => \E p \in Procs : req[p].pc = "up_conflict" /\ req'[p].pc = "idle"
       /\ \A p \in Procs :
            (req[p].pc = "up_conflict" /\ req'[p].pc # "up_conflict")
            => resp'.result = "Conflict"]_vars

\* content stored for a soft-deleted attachment has been uploaded again to the
\* same conversation, and the upload has succeeded
C33_Witness ==
    /\ resp.op = "upload"
    /\ resp.result = "OK"
    /\ resp.att \in Rows
    /\ \E b \in Rows \ {resp.att} :
          /\ attachments[b].conversation_id = attachments[resp.att].conversation_id
          /\ attachments[b].status = DELETED
          /\ attachments[b].file_hash = attachments[resp.att].file_hash

C35_NonOwnerGetsNotFound ==
    [][\A user \in Users, conv \in Convs :
          (/\ owner_id(conv) # user
           /\ \/ \E size \in 1..(max_file_size + 1), ctype \in allowed_content_types :
                    InitiateCheck(1, user, conv, size, ctype)
              \/ \E uuid \in KnownUuids, content \in Contents :
                    UploadLocate(1, user, conv, uuid, content)
              \/ \E uuid \in KnownUuids, permanent \in BOOLEAN :
                    DeleteLocate(1, user, conv, uuid, permanent)
              \/ \E include_deleted \in BOOLEAN : List(1, user, conv, include_deleted)
              \/ \E uuid \in KnownUuids : Download(1, user, conv, uuid)
              \/ \E updates \in BatchUpdates : BatchActivity(1, user, conv, updates)
              \/ \E text \in MsgTexts, uuids \in SUBSET KnownUuids :
                    MessageBegin(1, user, conv, text, uuids))
          => /\ resp'.result = "NotFound"
             /\ resp'.out = {}
             /\ resp'.upload_url = <<>>
             /\ resp'.upload_method = "-"
             /\ resp'.expires_at = 0
             /\ resp'.updated = 0
             /\ attachments' = attachments
             /\ blobs' = blobs
             /\ messages' = messages
             /\ req' = req]_vars

\* a list request was refused for lack of ownership while an UPLOADED attachment
\* with stored bytes exists
C35_Witness ==
    /\ resp.op = "list"
    /\ resp.result = "NotFound"
    /\ \E a \in Rows : /\ attachments[a].status = UPLOADED
                       /\ attachments[a].storage_path \in DOMAIN blobs

\* C36: an upload-content request that is answered NotFound, SizeMismatch or
\* Conflict has written nothing to storage: each of its steps (locating the
\* row, the duplicate query, the removal of the row) leaves the stored objects
\* and their bytes as they were, and no other step leads to these answers.
C36_RejectedUploadWritesNothing ==
    [][/\ (resp'.op = "upload" /\ resp'.result \in {"NotFound", "SizeMismatch", "Conflict"})
             => /\ blobs' = blobs
                /\ \E p \in Procs : /\ req[p].pc \in {"idle", "up_conflict"}
                                    /\ req'[p].pc = "idle"
                                    /\ (req[p].pc = "idle") = (resp'.result # "Conflict")
       /\ \A p \in Procs :
             /\ (req'[p].pc = "up_conflict" /\ req[p].pc # "up_conflict")
                   => (req[p].pc = "up_dup" /\ blobs' = blobs)
             /\ (req'[p].pc = "up_dup" /\ req[p].pc # "up_dup")
                   => (req[p].pc = "idle" /\ blobs' = blobs)]_vars

\* an upload was refused as a duplicate while objects are stored
C36_Witness ==
    /\ resp.op = "upload"
    /\ resp.result = "Conflict"
    /\ DOMAIN blobs # {}

C38_PreferencesPersistedOnSuccess ==
    [][\A p \in Procs :
          LET r == req[p]
              SameActivity ==
                  /\ DOMAIN attachments' = Rows
                  /\ \A a \in Rows : attachments'[a].activity_status
                                        = attachments[a].activity_status
          IN  /\ (r.pc = "msg_commit" /\ req'[p].pc = "idle"
                     /\ settings.persist_attachment_preferences /\ r.uuids # {})
                  => /\ resp'.op = "message" /\ resp'.result = "OK"
                     /\ \A a \in DOMAIN attachments' :
                           (/\ attachments'[a].conversation_id = r.conv
                            /\ attachments'[a].status = UPLOADED)
                           => attachments'[a].activity_status =
                                 IF attachments'[a].uuid \in r.uuids
                                 THEN ACTIVE ELSE INACTIVE
              /\ (r.pc = "msg_commit" /\ req'[p].pc = "idle" /\ r.uuids = {})
                  => SameActivity
              /\ (r.pc \in {"msg_ai", "msg_fail"} /\ req'[p] # r)
                  => SameActivity
              /\ (r.pc = "msg_fail" /\ req'[p].pc = "idle")
                  => resp'.result # "OK"]_vars

\* a message was created with persistence enabled, and its conversation now
\* holds an ACTIVE attachment that was listed and an UPLOADED attachment that
\* is INACTIVE
C38_Witness ==
    /\ resp.op = "message"
    /\ resp.result = "OK"
    /\ settings.persist_attachment_preferences
    /\ \E a \in resp.out, b \in Rows :
          /\ attachments[a].activity_status = ACTIVE
          /\ attachments[b].conversation_id = attachments[a].conversation_id
          /\ attachments[b].status = UPLOADED
          /\ attachments[b].activity_status = INACTIVE

====
